---- MODULE Spec2Model ----
(***************************************************************************)
(* next-msw-integration: the activation predicate isMSWEnabled and the     *)
(* readiness gate MSWProvider.                                             *)
(*                                                                         *)
(* The repository carries two revisions of MSWProvider: one whose          *)
(* isMSWReady state starts at !isMSWEnabled() and renders null while not   *)
(* ready ("v002"), and one whose state starts at false and renders the     *)
(* 'Initializing MSW...' placeholder while isMSWEnabled() && !isMSWReady   *)
(* ("v003").  The revision in use is fixed in the initial state.           *)
(*                                                                         *)
(* One page load constructs two instances of the component: the instance   *)
(* rendered on the server (typeof window === 'undefined') and the instance *)
(* hydrated in the browser (window defined).  Each owns its own useState   *)
(* cell.                                                                   *)
(***************************************************************************)
EXTENDS Integers, FiniteSets, Sequences, TLC

\* ------------------------------------------------------------------ bounds
\* How many times React may execute the mount effect of one instance
\* (1 = plain mount, 2 = StrictMode's mount / re-mount).
MaxEffectRuns ==
  2

\* How many requests the browser issues in one run of the request model.
MaxRequests ==
  2

\* ----------------------------------------------------- configuration values
\* The value of an environment variable that is not set.
undefined ==
  "<undefined>"

\* NEXT_PUBLIC_ENABLE_MSW_MOCK: the schema's two values, unset, and a value
\* outside the schema (validation skipped or env mocked, as the unit test does).
PublicMockFlagValues ==
  {"true", "false", undefined, "1"}

AppEnvValues ==
  {"development", "test", undefined}

NodeEnvValues ==
  {"development", "test", "production", undefined}

EnvSnapshots ==
  [NEXT_PUBLIC_ENABLE_MSW_MOCK : PublicMockFlagValues,
   APP_ENV : AppEnvValues,
   NODE_ENV : NodeEnvValues]

\* The two revisions of MSWProvider.
Variants ==
  {"v002", "v003"}

\* The two instances of the model.  In a page load they are the instance
\* rendered on the server and the instance hydrated in the browser; in the
\* two-roots specification both are browser roots.
Gates ==
  {"server", "client"}

Runs ==
  1 .. MaxEffectRuns

\* React StrictMode runs an effect as mount, cleanup, re-mount: the callback
\* is executed twice in the commit that mounts the component.
StrictModeRuns ==
  2

\* The executions of Page's effect callback.
PageRuns ==
  1 .. StrictModeRuns

NoCall ==
  [made |-> FALSE, window |-> FALSE, ret |-> FALSE]

\* The values of the onUnhandledRequest option of worker.start.
UnhandledRequestPolicies ==
  {"bypass", "warn", "error"}

VARIABLES
  env,          \* the configuration snapshot (process.env seen through env)
  variant,      \* [Gates -> which revision of MSWProvider the instance runs]
  globalWindow, \* [Gates -> BOOLEAN]  typeof window !== 'undefined' there
  call,         \* the most recent direct call of isMSWEnabled and its result
  mounted,      \* [Gates -> BOOLEAN]  the instance has been constructed
  isMSWReady,   \* [Gates -> BOOLEAN]  the useState cell
  view,         \* [Gates -> what the latest render returned]
  firstRender,  \* [Gates -> what the first render returned]
  enabledAtInit,\* [Gates -> BOOLEAN]  isMSWEnabled() at construction
  effectRuns,   \* [Gates -> 0..MaxEffectRuns] executions of the layout effect
  chain,        \* [Gates -> [Runs -> status of that execution's promise chain]]
  importCalls,  \* [Gates -> Nat] calls of import('../../mocks/browser')
  startCalls,   \* [Gates -> Nat] calls of worker.start
  startOptions, \* [Gates -> set of onUnhandledRequest values passed to start]
  uncaught,     \* [Gates -> Nat] rejections that left the promise chain unhandled
  prevCall,     \* the direct call of isMSWEnabled before the most recent one
  pageEffectRuns, \* executions of Page's useEffect callback (browser only)
  fetchReq,     \* [PageRuns -> how that execution's fetch('/api/user') was routed]
  isMounted,    \* [PageRuns -> BOOLEAN]  that execution's isMounted flag
  fetchState,   \* [PageRuns -> where that execution's fetchUser() stands]
  fetchRes,     \* [PageRuns -> what that execution's fetch settled with]
  user,         \* Page's useState cell user
  error,        \* Page's useState cell error
  loading,      \* Page's useState cell loading
  appliedBy,    \* the executions whose fetchUser() has called a setter
  requestCount, \* requests issued in the browser so far
  lastExchange  \* the most recent browser request and the response it got

vars ==
  <<env, variant, globalWindow, call, mounted, isMSWReady, view, firstRender,
    enabledAtInit, effectRuns, chain, importCalls, startCalls,
    startOptions, uncaught, prevCall, pageEffectRuns, fetchReq,
    isMounted, fetchState, fetchRes, user, error, loading, appliedBy,
    requestCount, lastExchange>>

gateVars ==
  <<mounted, isMSWReady, view, firstRender, enabledAtInit, effectRuns,
    chain, importCalls, startCalls, startOptions, uncaught>>

\* Page's state and the browser's request log.
pageVars ==
  <<pageEffectRuns, fetchReq, isMounted, fetchState, fetchRes, user, error,
    loading, appliedBy>>

\* The three useState cells of Page.
pageCells ==
  <<user, error, loading, appliedBy>>

reqVars ==
  <<requestCount, lastExchange>>

\* Everything a step of MSWProvider leaves alone.
otherVars ==
  <<env, variant, globalWindow, call, prevCall, pageVars, reqVars>>

\* Whether instance g runs where a window exists.
hasWindow(g) ==
  globalWindow[g]

\* --------------------------------------------------------- isMSWEnabled
\* C1 mutant: the server branch forgets NODE_ENV.
isMSWEnabled_onlyAppEnv(window) ==
  IF window
  THEN env.NEXT_PUBLIC_ENABLE_MSW_MOCK = "true"
  ELSE env.NEXT_PUBLIC_ENABLE_MSW_MOCK = "true" /\ env.APP_ENV = "test"

\* C2 mutant: no client branch, the server rule is applied everywhere.
isMSWEnabled_noClientBranch(window) ==
  env.NEXT_PUBLIC_ENABLE_MSW_MOCK = "true"
    /\ (env.APP_ENV = "test" \/ env.NODE_ENV = "test")

\* C3 mutant: the flag is tested for "not false" instead of "is true".
isMSWEnabled_notFalse(window) ==
  IF window
  THEN env.NEXT_PUBLIC_ENABLE_MSW_MOCK # "false"
  ELSE env.NEXT_PUBLIC_ENABLE_MSW_MOCK # "false"
         /\ (env.APP_ENV = "test" \/ env.NODE_ENV = "test")

\* C5 mutant: the server trusts the public flag alone.
isMSWEnabled_flagOnly(window) ==
  env.NEXT_PUBLIC_ENABLE_MSW_MOCK = "true"

\* C19 mutant: the predicate is one-shot, only its first call can be true.
isMSWEnabled_oneShot(window) ==
  /\ ~call.made
  /\ IF window
     THEN env.NEXT_PUBLIC_ENABLE_MSW_MOCK = "true"
     ELSE env.NEXT_PUBLIC_ENABLE_MSW_MOCK = "true"
            /\ (env.APP_ENV = "test" \/ env.NODE_ENV = "test")

isMSWEnabled(window) ==
  IF window
  THEN env.NEXT_PUBLIC_ENABLE_MSW_MOCK = "true"
  ELSE env.NEXT_PUBLIC_ENABLE_MSW_MOCK = "true"
         /\ (env.APP_ENV = "test" \/ env.NODE_ENV = "test")

\* C25 mutant: the call writes the schema default of an unset flag back
\* into the environment.
CallIsMSWEnabled_writesDefault(window) ==
  /\ call' = [made |-> TRUE, window |-> window, ret |-> isMSWEnabled(window)]
  /\ prevCall' = call
  /\ env' = [env EXCEPT
       !.NEXT_PUBLIC_ENABLE_MSW_MOCK = IF @ = undefined THEN "false" ELSE @]
  /\ UNCHANGED <<variant, globalWindow, pageVars, reqVars>>
  /\ UNCHANGED gateVars

\* A direct call of the predicate in the context given by window.
CallIsMSWEnabled(window) ==
  /\ call' = [made |-> TRUE, window |-> window, ret |-> isMSWEnabled(window)]
  /\ prevCall' = call
  /\ UNCHANGED <<env, variant, globalWindow, pageVars, reqVars>>
  /\ UNCHANGED gateVars

\* ------------------------------------------------------------ MSWProvider
\* C8 mutant: the guard of the not-ready branch loses its negation.
Render_readyInverted(v, window, ready) ==
  IF v = "v002"
  THEN IF ready THEN "null" ELSE "children"
  ELSE IF isMSWEnabled(window) /\ ready
       THEN "Initializing MSW..."
       ELSE "children"

\* C11 mutant: the not-ready branch is missing, children are always rendered.
Render_alwaysChildren(v, window, ready) ==
  "children"

\* C29 mutant: the placeholder of the later revision is not guarded by the
\* predicate.
Render_unguarded(v, window, ready) ==
  IF v = "v002"
  THEN IF ~ready THEN "null" ELSE "children"
  ELSE IF ~ready
       THEN "Initializing MSW..."
       ELSE "children"

\* What the component function returns for a given value of the state cell.
Render(v, window, ready) ==
  IF v = "v002"
  THEN IF ~ready THEN "null" ELSE "children"
  ELSE IF isMSWEnabled(window) /\ ~ready
       THEN "Initializing MSW..."
       ELSE "children"

\* The argument of useState on the first render.
useStateInitial(v, window) ==
  IF v = "v002" THEN ~isMSWEnabled(window) ELSE FALSE

\* C9 mutant: the effect only tests for a window, not for the predicate.
EffectSkipsStartup_windowOnly(v, window) ==
  ~window

\* C27 mutant: the effect only tests the predicate, not for a window.
EffectSkipsStartup_predicateOnly(v, window) ==
  ~isMSWEnabled(window)

\* The early-return test at the top of the layout effect.
EffectSkipsStartup(v, window) ==
  IF v = "v002"
  THEN ~isMSWEnabled(window) \/ ~window
  ELSE ~isMSWEnabled(window) \/ ~window

\* C26 mutant: the cell is a module-level variable, one for all instances.
setIsMSWReady_shared(g, value) ==
  /\ isMSWReady' = [h \in Gates |-> value]
  /\ view' = [h \in Gates |->
       IF mounted[h]
       THEN Render(variant[h], hasWindow(h), value)
       ELSE view[h]]

\* setIsMSWReady(value) followed by the re-render it schedules.
setIsMSWReady(g, value) ==
  /\ isMSWReady' = [isMSWReady EXCEPT ![g] = value]
  /\ view' = [view EXCEPT ![g] = Render(variant[g], hasWindow(g), value)]

\* First call of the component function: useState plus the first render.
MSWProvider(g) ==
  /\ ~mounted[g]
  /\ mounted' = [mounted EXCEPT ![g] = TRUE]
  /\ enabledAtInit' = [enabledAtInit EXCEPT ![g] = isMSWEnabled(hasWindow(g))]
  /\ isMSWReady' =
       [isMSWReady EXCEPT ![g] = useStateInitial(variant[g], hasWindow(g))]
  /\ view' = [view EXCEPT
       ![g] = Render(variant[g], hasWindow(g),
                     useStateInitial(variant[g], hasWindow(g)))]
  /\ firstRender' = [firstRender EXCEPT
       ![g] = Render(variant[g], hasWindow(g),
                     useStateInitial(variant[g], hasWindow(g)))]
  /\ UNCHANGED <<otherVars, uncaught, startOptions,
                 effectRuns, chain, importCalls,
                 startCalls>>

\* C16 mutant: the effect clears the cell before it starts the import.
useLayoutEffect_resets(g) ==
  /\ mounted[g]
  /\ effectRuns[g] < MaxEffectRuns
  /\ effectRuns' = [effectRuns EXCEPT ![g] = @ + 1]
  /\ IF EffectSkipsStartup(variant[g], hasWindow(g))
     THEN /\ setIsMSWReady(g, TRUE)
          /\ UNCHANGED <<chain, importCalls>>
     ELSE /\ importCalls' = [importCalls EXCEPT ![g] = @ + 1]
          /\ chain' = [chain EXCEPT ![g][effectRuns[g] + 1] = "importing"]
          /\ setIsMSWReady(g, FALSE)
  /\ UNCHANGED <<otherVars, uncaught, startOptions,
                 mounted, firstRender, enabledAtInit,
                 startCalls>>

\* One execution of the layout effect's callback.  A server render pass
\* (renderToString) never takes this step for the server instance; a renderer
\* without a DOM does, and then the `typeof window === 'undefined'` test
\* of the callback is what returns early.
useLayoutEffect(g) ==
  /\ mounted[g]
  /\ effectRuns[g] < MaxEffectRuns
  /\ effectRuns' = [effectRuns EXCEPT ![g] = @ + 1]
  /\ IF EffectSkipsStartup(variant[g], hasWindow(g))
     THEN /\ setIsMSWReady(g, TRUE)
          /\ UNCHANGED <<chain, importCalls>>
     ELSE /\ importCalls' = [importCalls EXCEPT ![g] = @ + 1]
          /\ chain' = [chain EXCEPT ![g][effectRuns[g] + 1] = "importing"]
          /\ UNCHANGED <<isMSWReady, view>>
  /\ UNCHANGED <<otherVars, uncaught, startOptions,
                 mounted, firstRender, enabledAtInit,
                 startCalls>>

\* The promise of import('../../mocks/browser') settles.
ImportSettles(g, i, ok) ==
  /\ chain[g][i] = "importing"
  /\ chain' = [chain EXCEPT
       ![g][i] = IF ok THEN "imported" ELSE "importRejected"]
  /\ UNCHANGED <<otherVars, uncaught, startOptions,
                 mounted, isMSWReady, view, firstRender,
                 enabledAtInit, effectRuns, importCalls, startCalls>>

\* C10 mutant: worker.start is not awaited, the cell is set right away.
ThenCallback_notAwaited(g, i) ==
  /\ chain[g][i] = "imported"
  /\ startCalls' = [startCalls EXCEPT ![g] = @ + 1]
  /\ startOptions' = [startOptions EXCEPT ![g] = @ \cup {"bypass"}]
  /\ chain' = [chain EXCEPT ![g][i] = "starting"]
  /\ setIsMSWReady(g, TRUE)
  /\ UNCHANGED <<otherVars, uncaught,
                 mounted, firstRender, enabledAtInit,
                 effectRuns, importCalls>>

\* C18 mutant: worker.start() is called without options, which leaves
\* onUnhandledRequest at the library default 'warn'.
ThenCallback_noOptions(g, i) ==
  /\ chain[g][i] = "imported"
  /\ startCalls' = [startCalls EXCEPT ![g] = @ + 1]
  /\ startOptions' = [startOptions EXCEPT ![g] = @ \cup {"warn"}]
  /\ chain' = [chain EXCEPT ![g][i] = "starting"]
  /\ UNCHANGED <<otherVars, uncaught,
                 mounted, isMSWReady, view, firstRender,
                 enabledAtInit, effectRuns, importCalls>>

\* The .then callback up to its await: worker.start({...}) is called with
\* onUnhandledRequest: 'bypass'.
ThenCallback(g, i) ==
  /\ chain[g][i] = "imported"
  /\ startCalls' = [startCalls EXCEPT ![g] = @ + 1]
  /\ startOptions' = [startOptions EXCEPT ![g] = @ \cup {"bypass"}]
  /\ chain' = [chain EXCEPT ![g][i] = "starting"]
  /\ UNCHANGED <<otherVars, uncaught,
                 mounted, isMSWReady, view, firstRender,
                 enabledAtInit, effectRuns, importCalls>>

\* The promise returned by worker.start settles.
StartSettles(g, i, ok) ==
  /\ chain[g][i] = "starting"
  /\ chain' = [chain EXCEPT
       ![g][i] = IF ok THEN "startResolved" ELSE "startRejected"]
  /\ UNCHANGED <<otherVars, uncaught, startOptions,
                 mounted, isMSWReady, view, firstRender,
                 enabledAtInit, effectRuns, importCalls, startCalls>>

\* C13 mutant: no handler around the await, a rejected worker.start leaves
\* the chain as an unhandled rejection and the cell untouched.
ThenCallbackResumes_noCatch(g, i) ==
  /\ chain[g][i] \in {"startResolved", "startRejected"}
  /\ chain' = [chain EXCEPT
       ![g][i] = IF chain[g][i] = "startResolved"
                 THEN "done" ELSE "doneStartFailed"]
  /\ IF chain[g][i] = "startResolved"
     THEN setIsMSWReady(g, TRUE) /\ UNCHANGED uncaught
     ELSE /\ uncaught' = [uncaught EXCEPT ![g] = @ + 1]
          /\ UNCHANGED <<isMSWReady, view>>
  /\ UNCHANGED <<otherVars, startOptions,
                 mounted, firstRender, enabledAtInit,
                 effectRuns, importCalls, startCalls>>

\* C15 mutant: the success path returns without setting the cell.
ThenCallbackResumes_forgetsReady(g, i) ==
  /\ chain[g][i] \in {"startResolved", "startRejected"}
  /\ chain' = [chain EXCEPT
       ![g][i] = IF chain[g][i] = "startResolved"
                 THEN "done" ELSE "doneStartFailed"]
  /\ IF chain[g][i] = "startResolved"
     THEN UNCHANGED <<isMSWReady, view>>
     ELSE setIsMSWReady(g, TRUE)
  /\ UNCHANGED <<otherVars, uncaught, startOptions,
                 mounted, firstRender, enabledAtInit,
                 effectRuns, importCalls, startCalls>>

\* The .then callback resumes after the await: setIsMSWReady(true) on
\* success; on rejection the catch block (v003) or, through the rejected
\* promise of .then, the .catch callback (v002) sets it.
ThenCallbackResumes(g, i) ==
  /\ chain[g][i] \in {"startResolved", "startRejected"}
  /\ chain' = [chain EXCEPT
       ![g][i] = IF chain[g][i] = "startResolved"
                 THEN "done" ELSE "doneStartFailed"]
  /\ setIsMSWReady(g, TRUE)
  /\ UNCHANGED <<otherVars, uncaught, startOptions,
                 mounted, firstRender, enabledAtInit,
                 effectRuns, importCalls, startCalls>>

\* C14 mutant: the chain has no .catch, a rejected import stays unhandled.
CatchCallback_missing(g, i) ==
  /\ chain[g][i] = "importRejected"
  /\ chain' = [chain EXCEPT ![g][i] = "doneImportFailed"]
  /\ uncaught' = [uncaught EXCEPT ![g] = @ + 1]
  /\ UNCHANGED <<otherVars, startOptions,
                 mounted, isMSWReady, view, firstRender, enabledAtInit,
                 effectRuns, importCalls, startCalls>>

\* The .catch callback after a rejected import.
CatchCallback(g, i) ==
  /\ chain[g][i] = "importRejected"
  /\ chain' = [chain EXCEPT ![g][i] = "doneImportFailed"]
  /\ setIsMSWReady(g, TRUE)
  /\ UNCHANGED <<otherVars, uncaught, startOptions,
                 mounted, firstRender, enabledAtInit,
                 effectRuns, importCalls, startCalls>>

\* Statuses of a promise chain that has called worker.start.
Started ==
  {"starting", "startResolved", "startRejected", "done", "doneStartFailed"}

\* Statuses of a promise chain whose worker.start has settled.
StartSettled ==
  {"startResolved", "startRejected", "done", "doneStartFailed"}

\* The readiness state of an instance: ready from construction when the
\* predicate was false, otherwise ready once setIsMSWReady(true) was called.
Ready(g) ==
  ~enabledAtInit[g] \/ isMSWReady[g]

\* Statuses of a promise chain whose startup deferred has settled.
Settled ==
  {"importRejected", "startResolved", "startRejected",
   "done", "doneStartFailed", "doneImportFailed"}

ChainStatuses ==
  {"none", "importing", "imported", "starting"} \cup Settled

\* --------------------------------------------------------------- handlers
\* The body of the mocked user profile.
MockUser ==
  [id |-> "1", name |-> "John Doe", email |-> "john.doe@example.com"]

\* The one request body used for POST requests.
LoginBody ==
  [username |-> "john"]

NoBody ==
  [none |-> TRUE]

GetUser ==
  [method |-> "GET", path |-> "/api/user", body |-> NoBody]

\* The requests a browser page issues in this model: the two mocked ones, a
\* mocked path with the other method, and a path no handler knows.
Requests ==
  {GetUser,
   [method |-> "POST", path |-> "/api/login", body |-> LoginBody],
   [method |-> "POST", path |-> "/api/user", body |-> LoginBody],
   [method |-> "GET", path |-> "/api/other", body |-> NoBody]}

\* C20 mutant: the user handler is registered for '/api/users'.
handlers_usersPath ==
  << [method |-> "GET", path |-> "/api/users", resolver |-> "user"],
     [method |-> "POST", path |-> "/api/login", resolver |-> "login"] >>

\* The handler list, in definition order.
handlers ==
  << [method |-> "GET", path |-> "/api/user", resolver |-> "user"],
     [method |-> "POST", path |-> "/api/login", resolver |-> "login"] >>

\* HttpResponse.json(body): status 200 and the JSON body.
HttpResponseJson(body) ==
  [status |-> 200, body |-> body]

\* What a handler's resolver returns for a request.
Resolve(resolver, req) ==
  IF resolver = "user"
  THEN HttpResponseJson(MockUser)
  ELSE HttpResponseJson(
         [success |-> TRUE, token |-> "mock-jwt-token", user |-> req.body])

\* Indexes of the handlers whose method and path match the request.
Matching(req) ==
  {k \in 1 .. Len(handlers) :
     handlers[k].method = req.method /\ handlers[k].path = req.path}

\* The first matching handler answers; no match means the request is not
\* handled and, under onUnhandledRequest 'bypass', goes to the network.
HandleRequest(req) ==
  IF Matching(req) = {}
  THEN [handled |-> FALSE, response |-> [status |-> 0, body |-> NoBody]]
  ELSE LET k == CHOOSE m \in Matching(req) : \A n \in Matching(req) : m <= n
       IN [handled |-> TRUE, response |-> Resolve(handlers[k].resolver, req)]

\* The service worker intercepts once a worker.start of the browser
\* instance has resolved.
WorkerActive ==
  \E i \in Runs : chain["client"][i] \in {"startResolved", "done"}

\* What the real network may answer for a request that is passed through.
NetworkResponses ==
  {[status |-> 200, body |-> [source |-> "network"]],
   [status |-> 404, body |-> NoBody]}

NoExchange ==
  [made |-> FALSE]

\* A request issued in the browser and the response it is answered with.
BrowserRequest(req) ==
  /\ mounted["client"]
  /\ requestCount < MaxRequests
  /\ requestCount' = requestCount + 1
  /\ \E net \in NetworkResponses :
       lastExchange' =
         [made |-> TRUE,
          req |-> req,
          workerActive |-> WorkerActive,
          mocked |-> WorkerActive /\ HandleRequest(req).handled,
          response |-> IF WorkerActive /\ HandleRequest(req).handled
                       THEN HandleRequest(req).response
                       ELSE net]
  /\ UNCHANGED <<env, variant, globalWindow, call, prevCall, pageVars>>
  /\ UNCHANGED gateVars

\* ------------------------------------------------------------------- Page
\* JavaScript's null, as the value of a state cell or of a JSON document.
null ==
  [null |-> TRUE]

\* The placeholder of a fetch that has not settled.
NoResponse ==
  [status |-> 0, body |-> NoBody]

\* fetch rejects (the request never got a response).
NetworkError ==
  [status |-> 0, body |-> [message |-> "Failed to fetch"]]

\* A body that is not a JSON document, such as an HTML error page.
HtmlBody ==
  [html |-> TRUE]

\* What fetch('/api/user') may settle with: the mock's response when the
\* worker intercepted the request, otherwise whatever the network does.
FetchOutcomes(route) ==
  IF route = "mocked"
  THEN {HandleRequest(GetUser).response}
  ELSE NetworkResponses
         \cup {[status |-> 200, body |-> null],
               [status |-> 200, body |-> HtmlBody],
               NetworkError}

\* C22 mutant: only 204 No Content counts as a success.
resOk_only204(res) ==
  res.status = 204

\* res.ok
resOk(res) ==
  res.status \in 200 .. 299

\* C28 mutant: a body that is no JSON document is handed on as it is.
Json_lenient(body) ==
  [parsed |-> TRUE, value |-> body, message |-> ""]

\* res.json(): the parsed document, or a SyntaxError.
Json(body) ==
  IF body \in {HtmlBody, NoBody}
  THEN [parsed |-> FALSE, value |-> null, message |-> "Unexpected token"]
  ELSE [parsed |-> TRUE, value |-> body, message |-> ""]

\* What Page returns for the current values of its cells.
PageRender ==
  IF loading THEN "Loading..."
  ELSE IF error # null THEN "Error:"
  ELSE IF user # null THEN "User Data"
  ELSE "No user data available"

\* What the browser shows: the provider's placeholder, or Page.
Displayed ==
  IF view["client"] = "children" THEN PageRender ELSE view["client"]

\* How the fetch of an effect execution is routed when it is issued.
Route ==
  IF WorkerActive /\ HandleRequest(GetUser).handled
  THEN "mocked" ELSE "network"

\* C12 mutant: Page is rendered outside the provider, its effect does not
\* wait for the provider to render its children.
PageEffect_ungated ==
  /\ mounted["client"]
  /\ pageEffectRuns = 0
  /\ \E n \in PageRuns :
       /\ pageEffectRuns' = n
       /\ fetchReq' = [i \in PageRuns |-> IF i <= n THEN Route ELSE "none"]
       /\ fetchState' = [i \in PageRuns |-> IF i <= n THEN "pending" ELSE "none"]
       /\ isMounted' = [i \in PageRuns |-> i = n]
  /\ UNCHANGED <<fetchRes, pageCells>>
  /\ UNCHANGED <<env, variant, globalWindow, call, prevCall, reqVars>>
  /\ UNCHANGED gateVars

\* C24 mutant: the effect returns no cleanup, every execution keeps its
\* isMounted flag.
PageEffect_noCleanup ==
  /\ view["client"] = "children"
  /\ pageEffectRuns = 0
  /\ \E n \in PageRuns :
       /\ pageEffectRuns' = n
       /\ fetchReq' = [i \in PageRuns |-> IF i <= n THEN Route ELSE "none"]
       /\ fetchState' = [i \in PageRuns |-> IF i <= n THEN "pending" ELSE "none"]
       /\ isMounted' = [i \in PageRuns |-> i <= n]
  /\ UNCHANGED <<fetchRes, pageCells>>
  /\ UNCHANGED <<env, variant, globalWindow, call, prevCall, reqVars>>
  /\ UNCHANGED gateVars

\* The commit that mounts Page.  Page is a child of MSWProvider and is
\* mounted only while the provider renders its children.  The effect
\* callback runs n times in that commit (once in production, mount, cleanup,
\* re-mount under StrictMode): each execution sets its own isMounted and
\* calls fetchUser(), which issues fetch('/api/user'); the cleanup of every
\* execution but the last has cleared that execution's flag.
PageEffect ==
  /\ view["client"] = "children"
  /\ pageEffectRuns = 0
  /\ \E n \in PageRuns :
       /\ pageEffectRuns' = n
       /\ fetchReq' = [i \in PageRuns |-> IF i <= n THEN Route ELSE "none"]
       /\ fetchState' = [i \in PageRuns |-> IF i <= n THEN "pending" ELSE "none"]
       /\ isMounted' = [i \in PageRuns |-> i = n]
  /\ UNCHANGED <<fetchRes, pageCells>>
  /\ UNCHANGED <<env, variant, globalWindow, call, prevCall, reqVars>>
  /\ UNCHANGED gateVars

\* Page is unmounted: the cleanup of the last execution clears its flag.
PageUnmount ==
  /\ pageEffectRuns > 0
  /\ isMounted[pageEffectRuns]
  /\ isMounted' = [i \in PageRuns |-> FALSE]
  /\ UNCHANGED <<pageEffectRuns, fetchReq, fetchState, fetchRes, pageCells>>
  /\ UNCHANGED <<env, variant, globalWindow, call, prevCall, reqVars>>
  /\ UNCHANGED gateVars

\* The catch block followed by the finally block of execution i.
Caught(i, message) ==
  /\ IF isMounted[i]
     THEN /\ error' = [message |-> message]
          /\ loading' = FALSE
          /\ appliedBy' = appliedBy \cup {i}
     ELSE UNCHANGED <<error, loading, appliedBy>>
  /\ UNCHANGED user

\* fetch('/api/user') of execution i settles with res and fetchUser()
\* resumes: a rejection or a response that is not ok goes to the catch and
\* finally blocks, an ok response to res.json().
FetchSettles(i, res) ==
  /\ fetchState[i] = "pending"
  /\ res \in FetchOutcomes(fetchReq[i])
  /\ fetchRes' = [fetchRes EXCEPT ![i] = res]
  /\ IF res = NetworkError
     THEN /\ fetchState' = [fetchState EXCEPT ![i] = "settled"]
          /\ Caught(i, res.body.message)
     ELSE IF ~resOk(res)
     THEN /\ fetchState' = [fetchState EXCEPT ![i] = "settled"]
          /\ Caught(i, "Failed to fetch user data: " \o ToString(res.status))
     ELSE /\ fetchState' = [fetchState EXCEPT ![i] = "parsing"]
          /\ UNCHANGED pageCells
  /\ UNCHANGED <<pageEffectRuns, fetchReq, isMounted>>
  /\ UNCHANGED <<env, variant, globalWindow, call, prevCall, reqVars>>
  /\ UNCHANGED gateVars

\* C23 mutant: the setters are called without looking at isMounted, as in
\* a component without the cleanup pattern.
JsonSettles_noMountedCheck(i) ==
  /\ fetchState[i] = "parsing"
  /\ fetchState' = [fetchState EXCEPT ![i] = "settled"]
  /\ IF Json(fetchRes[i].body).parsed
     THEN /\ user' = Json(fetchRes[i].body).value
          /\ loading' = FALSE
          /\ appliedBy' = appliedBy \cup {i}
          /\ UNCHANGED error
     ELSE Caught(i, Json(fetchRes[i].body).message)
  /\ UNCHANGED <<pageEffectRuns, fetchReq, isMounted, fetchRes>>
  /\ UNCHANGED <<env, variant, globalWindow, call, prevCall, reqVars>>
  /\ UNCHANGED gateVars

\* C21 mutant: there is no finally block, loading is never cleared.
JsonSettles_noFinally(i) ==
  /\ fetchState[i] = "parsing"
  /\ fetchState' = [fetchState EXCEPT ![i] = "settled"]
  /\ IF Json(fetchRes[i].body).parsed
     THEN IF isMounted[i]
          THEN /\ user' = Json(fetchRes[i].body).value
               /\ appliedBy' = appliedBy \cup {i}
               /\ UNCHANGED <<error, loading>>
          ELSE UNCHANGED pageCells
     ELSE Caught(i, Json(fetchRes[i].body).message)
  /\ UNCHANGED <<pageEffectRuns, fetchReq, isMounted, fetchRes>>
  /\ UNCHANGED <<env, variant, globalWindow, call, prevCall, reqVars>>
  /\ UNCHANGED gateVars

\* res.json() of execution i settles and fetchUser() resumes: setUser(data)
\* and, in the finally block, setLoading(false), both only under isMounted;
\* a SyntaxError goes to the catch and finally blocks.
JsonSettles(i) ==
  /\ fetchState[i] = "parsing"
  /\ fetchState' = [fetchState EXCEPT ![i] = "settled"]
  /\ IF Json(fetchRes[i].body).parsed
     THEN IF isMounted[i]
          THEN /\ user' = Json(fetchRes[i].body).value
               /\ loading' = FALSE
               /\ appliedBy' = appliedBy \cup {i}
               /\ UNCHANGED error
          ELSE UNCHANGED pageCells
     ELSE Caught(i, Json(fetchRes[i].body).message)
  /\ UNCHANGED <<pageEffectRuns, fetchReq, isMounted, fetchRes>>
  /\ UNCHANGED <<env, variant, globalWindow, call, prevCall, reqVars>>
  /\ UNCHANGED gateVars

\* ------------------------------------------------------------ specifications
InitGates ==
  /\ mounted = [g \in Gates |-> FALSE]
  /\ isMSWReady = [g \in Gates |-> FALSE]
  /\ view = [g \in Gates |-> "unrendered"]
  /\ firstRender = [g \in Gates |-> "unrendered"]
  /\ enabledAtInit = [g \in Gates |-> FALSE]
  /\ effectRuns = [g \in Gates |-> 0]
  /\ chain = [g \in Gates |-> [i \in Runs |-> "none"]]
  /\ importCalls = [g \in Gates |-> 0]
  /\ startCalls = [g \in Gates |-> 0]
  /\ startOptions = [g \in Gates |-> {}]
  /\ uncaught = [g \in Gates |-> 0]

\* Nothing has been called, constructed, mounted or requested.
InitState ==
  /\ call = NoCall
  /\ prevCall = NoCall
  /\ InitGates
  /\ pageEffectRuns = 0
  /\ fetchReq = [i \in PageRuns |-> "none"]
  /\ isMounted = [i \in PageRuns |-> FALSE]
  /\ fetchState = [i \in PageRuns |-> "none"]
  /\ fetchRes = [i \in PageRuns |-> NoResponse]
  /\ user = null
  /\ error = null
  /\ loading = TRUE
  /\ appliedBy = {}
  /\ requestCount = 0
  /\ lastExchange = NoExchange

\* One build runs the same revision of MSWProvider on both sides.
UniformVariants ==
  {[g \in Gates |-> v] : v \in Variants}

\* A page load: the server instance has no window, the browser one has.
PageLoadWindows ==
  [g \in Gates |-> g = "client"]

Init ==
  /\ env \in EnvSnapshots
  /\ variant \in UniformVariants
  /\ globalWindow = PageLoadWindows
  /\ InitState

\* A page load: both instances are constructed, effects run, promises settle.
Next ==
  \/ \E g \in Gates : MSWProvider(g)
  \/ \E g \in Gates : useLayoutEffect(g)
  \/ \E g \in Gates, i \in Runs, ok \in BOOLEAN : ImportSettles(g, i, ok)
  \/ \E g \in Gates, i \in Runs : ThenCallback(g, i)
  \/ \E g \in Gates, i \in Runs, ok \in BOOLEAN : StartSettles(g, i, ok)
  \/ \E g \in Gates, i \in Runs : ThenCallbackResumes(g, i)
  \/ \E g \in Gates, i \in Runs : CatchCallback(g, i)

Spec ==
  Init /\ [][Next]_vars

\* The promise callbacks are microtasks: once runnable they do run.  Neither
\* the settlement of a promise nor the execution of an effect is guaranteed.
Fairness ==
  \A g \in Gates, i \in Runs :
    /\ WF_vars(ThenCallback(g, i))
    /\ WF_vars(ThenCallbackResumes(g, i))
    /\ WF_vars(CatchCallback(g, i))

SpecLive ==
  Init /\ [][Next]_vars /\ Fairness

\* The steps of the instance hydrated in the browser.
ClientGateStep ==
  \/ MSWProvider("client")
  \/ useLayoutEffect("client")
  \/ \E i \in Runs, ok \in BOOLEAN : ImportSettles("client", i, ok)
  \/ \E i \in Runs : ThenCallback("client", i)
  \/ \E i \in Runs, ok \in BOOLEAN : StartSettles("client", i, ok)
  \/ \E i \in Runs : ThenCallbackResumes("client", i)
  \/ \E i \in Runs : CatchCallback("client", i)

\* The browser side of a page load: the provider and the page it wraps.
NextPage ==
  \/ ClientGateStep
  \/ PageEffect
  \/ \E i \in PageRuns :
       \E res \in FetchOutcomes("mocked") \cup FetchOutcomes("network") :
         FetchSettles(i, res)
  \/ \E i \in PageRuns : JsonSettles(i)
  \/ PageUnmount

\* The snapshot as the browser bundle of a development build sees it: the
\* public flag and NODE_ENV are inlined at build time, the server-only
\* APP_ENV is not there.
BrowserEnvSnapshots ==
  {e \in EnvSnapshots :
     e.APP_ENV = undefined /\ e.NODE_ENV = "development"}

InitPage ==
  /\ Init
  /\ env \in BrowserEnvSnapshots

SpecPage ==
  InitPage /\ [][NextPage]_vars

\* The promise callbacks of the provider are microtasks, React commits the
\* effect of a mounted Page, and the mock answers an intercepted request
\* with a body that is already there.  Nothing is assumed about the
\* network, nor about the import or worker.start settling.
FairnessPage ==
  /\ \A i \in Runs :
       /\ WF_vars(ThenCallback("client", i))
       /\ WF_vars(ThenCallbackResumes("client", i))
       /\ WF_vars(CatchCallback("client", i))
  /\ WF_vars(PageEffect)
  /\ \A i \in PageRuns :
       /\ WF_vars(/\ fetchReq[i] = "mocked"
                  /\ \E res \in FetchOutcomes("mocked") : FetchSettles(i, res))
       /\ WF_vars(fetchReq[i] = "mocked" /\ JsonSettles(i))

SpecPageLive ==
  InitPage /\ [][NextPage]_vars /\ FairnessPage

\* The browser side of a page load with requests issued at any time.
NextRequests ==
  \/ ClientGateStep
  \/ \E req \in Requests : BrowserRequest(req)

SpecRequests ==
  Init /\ [][NextRequests]_vars

\* Two rendering roots in one runtime, each with its own MSWProvider: the
\* first of the earlier revision, the second of either.  The snapshot makes
\* the predicate depend on the flag alone, with and without a window.
InitTwoRoots ==
  /\ env \in {e \in EnvSnapshots : e.APP_ENV = "test" /\ e.NODE_ENV = "test"}
  /\ variant \in {v \in [Gates -> Variants] : v["server"] = "v002"}
  /\ globalWindow \in {[g \in Gates |-> w] : w \in BOOLEAN}
  /\ InitState

SpecTwoRoots ==
  InitTwoRoots /\ [][Next]_vars

\* The predicate on its own: every snapshot, called in either context.
NextPredicate ==
  \E window \in BOOLEAN : CallIsMSWEnabled(window)

SpecPredicate ==
  Init /\ [][NextPredicate]_vars

\* The core: the predicate called at any time during a page load.
NextCore ==
  \/ Next
  \/ NextPredicate

SpecCore ==
  Init /\ [][NextCore]_vars

TypeOK ==
  /\ env \in EnvSnapshots
  /\ variant \in [Gates -> Variants]
  /\ globalWindow \in [Gates -> BOOLEAN]
  /\ call \in [made : BOOLEAN, window : BOOLEAN, ret : BOOLEAN]
  /\ mounted \in [Gates -> BOOLEAN]
  /\ isMSWReady \in [Gates -> BOOLEAN]
  /\ view \in [Gates -> {"unrendered", "null", "Initializing MSW...", "children"}]
  /\ firstRender \in [Gates -> {"unrendered", "null", "Initializing MSW...", "children"}]
  /\ enabledAtInit \in [Gates -> BOOLEAN]
  /\ effectRuns \in [Gates -> 0 .. MaxEffectRuns]
  /\ chain \in [Gates -> [Runs -> ChainStatuses]]
  /\ importCalls \in [Gates -> 0 .. MaxEffectRuns]
  /\ startCalls \in [Gates -> 0 .. MaxEffectRuns]
  /\ startOptions \in [Gates -> SUBSET UnhandledRequestPolicies]
  /\ uncaught \in [Gates -> 0 .. MaxEffectRuns]
  /\ prevCall \in [made : BOOLEAN, window : BOOLEAN, ret : BOOLEAN]
  /\ pageEffectRuns \in 0 .. StrictModeRuns
  /\ fetchReq \in [PageRuns -> {"none", "mocked", "network"}]
  /\ isMounted \in [PageRuns -> BOOLEAN]
  /\ fetchState \in [PageRuns -> {"none", "pending", "parsing", "settled"}]
  /\ \A i \in PageRuns :
       fetchRes[i] \in {NoResponse} \cup FetchOutcomes("mocked")
                                   \cup FetchOutcomes("network")
  /\ user \in {null, MockUser, [source |-> "network"]}
  /\ error = null \/ error.message \in STRING
  /\ loading \in BOOLEAN
  /\ appliedBy \in SUBSET PageRuns
  /\ requestCount \in 0 .. MaxRequests
  /\ lastExchange.made \in BOOLEAN

\* ------------------------------------------------------------------ claims

\* C1: a call in the server context (no window) returns true exactly when
\* NEXT_PUBLIC_ENABLE_MSW_MOCK is "true" and APP_ENV or NODE_ENV is "test",
\* for every combination of the three values, unset ones included.
C1_ServerRule ==
  (call.made /\ ~call.window) =>
    (call.ret <=> (/\ env.NEXT_PUBLIC_ENABLE_MSW_MOCK = "true"
                   /\ (env.APP_ENV = "test" \/ env.NODE_ENV = "test")))

\* A server call that returned true through NODE_ENV alone, APP_ENV unset.
C1_Witness ==
  /\ call.made /\ ~call.window /\ call.ret
  /\ env.APP_ENV = undefined /\ env.NODE_ENV = "test"

\* C2: a call in the client context (window defined) returns true exactly
\* when NEXT_PUBLIC_ENABLE_MSW_MOCK is "true", whatever APP_ENV and NODE_ENV.
C2_ClientRule ==
  (call.made /\ call.window) =>
    (call.ret <=> env.NEXT_PUBLIC_ENABLE_MSW_MOCK = "true")

\* A client call that returned true in a configuration the server rejects.
C2_Witness ==
  /\ call.made /\ call.window /\ call.ret
  /\ env.APP_ENV = undefined /\ env.NODE_ENV = "production"

\* C3: when NEXT_PUBLIC_ENABLE_MSW_MOCK is not exactly "true" ("false",
\* unset or malformed) the call returns the boolean false in both contexts.
C3_FlagOffIsFalse ==
  (call.made /\ env.NEXT_PUBLIC_ENABLE_MSW_MOCK # "true") =>
    (call.ret \in BOOLEAN /\ call.ret = FALSE)

\* A client call with a malformed flag and a test environment.
C3_Witness ==
  /\ call.made /\ call.window /\ ~call.ret
  /\ env.NEXT_PUBLIC_ENABLE_MSW_MOCK = "1" /\ env.APP_ENV = "test"

\* C4: on the server the call returns false whenever APP_ENV is not "test",
\* for every value of NODE_ENV (as the documentation states the rule).
C4_ServerNeedsAppEnvTest ==
  (call.made /\ ~call.window /\ env.APP_ENV # "test") => ~call.ret

\* C5: on the server, with NODE_ENV "production" and APP_ENV not "test", the
\* call returns false for every value of NEXT_PUBLIC_ENABLE_MSW_MOCK.
C5_ProductionInterlock ==
  (/\ call.made /\ ~call.window
   /\ env.NODE_ENV = "production" /\ env.APP_ENV # "test") => ~call.ret

\* A production server call with the public flag misconfigured to "true".
C5_Witness ==
  /\ call.made /\ ~call.window /\ ~call.ret
  /\ env.NODE_ENV = "production" /\ env.APP_ENV = undefined
  /\ env.NEXT_PUBLIC_ENABLE_MSW_MOCK = "true"

\* C6: worker.start has been invoked by an instance only if
\* NEXT_PUBLIC_ENABLE_MSW_MOCK is "true" and the environment is a test
\* environment (APP_ENV or NODE_ENV is "test").
C6_StartedOnlyInTest ==
  \A g \in Gates :
    startCalls[g] > 0 =>
      /\ env.NEXT_PUBLIC_ENABLE_MSW_MOCK = "true"
      /\ (env.APP_ENV = "test" \/ env.NODE_ENV = "test")

\* C7: for every snapshot the first render on the server and the first
\* render on the client take the same branch (children, or the placeholder).
C7_SameFirstBranch ==
  (mounted["server"] /\ mounted["client"]) =>
    ((firstRender["server"] = "children")
       <=> (firstRender["client"] = "children"))

\* C8: an instance is created not ready (its first render is the
\* placeholder) exactly when isMSWEnabled() at construction, in the
\* instance's own context, is true, and ready (children on the first render)
\* exactly when it is false.
C8_InitialState ==
  \A g \in Gates :
    mounted[g] => ((firstRender[g] # "children") <=> enabledAtInit[g])

\* One page load in which the client instance was created not ready and
\* the server instance ready.
C8_Witness ==
  /\ mounted["client"] /\ enabledAtInit["client"]
  /\ firstRender["client"] # "children"
  /\ mounted["server"] /\ ~enabledAtInit["server"]
  /\ firstRender["server"] = "children"

\* C9: an instance constructed while the predicate is false renders the
\* children from its first render on and never calls import() nor
\* worker.start, however often its effect runs.
C9_DisabledNeverStarts ==
  \A g \in Gates :
    (mounted[g] /\ ~enabledAtInit[g]) =>
      /\ firstRender[g] = "children"
      /\ view[g] = "children"
      /\ importCalls[g] = 0
      /\ startCalls[g] = 0

\* A client instance constructed with the predicate false whose effect ran.
C9_Witness ==
  /\ mounted["client"] /\ ~enabledAtInit["client"]
  /\ effectRuns["client"] >= 1
  /\ startCalls["client"] = 0

\* C10: a browser instance constructed while the predicate is true shows the
\* placeholder in every state in which no startup chain has settled (so it
\* stays not ready for as long as none settles), and the step that makes it
\* ready starts in a state where a chain has already settled.
C10_ReadyOnlyAfterSettled ==
  /\ [](\A g \in Gates :
          (mounted[g] /\ hasWindow(g) /\ enabledAtInit[g]
             /\ \A i \in Runs : chain[g][i] \notin Settled)
          => view[g] # "children")
  /\ [][\A g \in Gates :
          (hasWindow(g) /\ enabledAtInit[g]
             /\ view[g] # "children" /\ view'[g] = "children")
          => \E i \in Runs : chain[g][i] \in Settled]_vars

\* A browser instance constructed not ready that is ready after worker.start
\* resolved.
C10_Witness ==
  /\ mounted["client"] /\ enabledAtInit["client"]
  /\ firstRender["client"] # "children"
  /\ view["client"] = "children"
  /\ \E i \in Runs : chain["client"][i] = "done"

\* C11: while an instance is not ready it renders the placeholder and never
\* its children; in every state where it is ready it renders the children.
C11_ChildrenIffReady ==
  \A g \in Gates :
    mounted[g] =>
      /\ ~Ready(g) => view[g] # "children"
      /\ Ready(g) => view[g] = "children"

\* A browser instance that is not ready while worker.start is pending.
C11_Witness ==
  /\ mounted["client"] /\ ~Ready("client")
  /\ view["client"] # "children"
  /\ \E i \in Runs : chain["client"][i] = "starting"

\* C12 as stated: with the predicate true in the browser, Page's fetch of
\* /api/user has been issued only if a worker.start call has settled.
C12_FetchAfterStartSettled ==
  (isMSWEnabled(TRUE) /\ pageEffectRuns > 0) =>
    \E i \in Runs : chain["client"][i] \in StartSettled

\* C12 amended: with the predicate true in the browser, worker.start is
\* called only on a constructed instance, the instance becomes ready only
\* from a state where a startup deferred has settled (the import rejected,
\* or worker.start resolved or rejected), and Page's fetch is issued only
\* from a state where the instance renders its children and a startup
\* deferred has settled.
C12_Ordering ==
  [][isMSWEnabled(TRUE) =>
       /\ (startCalls'["client"] # startCalls["client"]) => mounted["client"]
       /\ (view["client"] # "children" /\ view'["client"] = "children")
            => \E i \in Runs : chain["client"][i] \in Settled
       /\ (pageEffectRuns' # pageEffectRuns)
            => /\ view["client"] = "children"
               /\ \E i \in Runs : chain["client"][i] \in Settled]_vars

\* Page's fetch was issued and answered by the mock after worker.start
\* resolved.
C12_Witness ==
  /\ enabledAtInit["client"]
  /\ pageEffectRuns > 0
  /\ fetchReq[1] = "mocked"
  /\ startCalls["client"] > 0

\* C13: when worker.start rejected and the callback has resumed, the
\* instance is ready, renders its children, and no rejection has left the
\* promise chain unhandled.
C13_StartFailureSwallowed ==
  \A g \in Gates, i \in Runs :
    chain[g][i] = "doneStartFailed" =>
      /\ Ready(g)
      /\ view[g] = "children"
      /\ uncaught[g] = 0

\* The browser instance is ready although its only startup ended with a
\* rejected worker.start.
C13_Witness ==
  /\ enabledAtInit["client"]
  /\ view["client"] = "children"
  /\ \E i \in Runs :
       /\ chain["client"][i] = "doneStartFailed"
       /\ \A j \in Runs \ {i} : chain["client"][j] = "none"

\* C14: when the dynamic import rejected and the .catch callback has run,
\* the instance is ready and renders its children, that promise chain never
\* called worker.start (every call belongs to a chain whose import
\* resolved), and no rejection is left unhandled.
C14_ImportFailureSwallowed ==
  \A g \in Gates, i \in Runs :
    chain[g][i] = "doneImportFailed" =>
      /\ Ready(g)
      /\ view[g] = "children"
      /\ uncaught[g] = 0
      /\ startCalls[g] = Cardinality({j \in Runs : chain[g][j] \in Started})

\* The browser instance is ready after its only import failed, with no call
\* of worker.start.
C14_Witness ==
  /\ enabledAtInit["client"]
  /\ view["client"] = "children"
  /\ startCalls["client"] = 0
  /\ \E i \in Runs :
       /\ chain["client"][i] = "doneImportFailed"
       /\ \A j \in Runs \ {i} : chain["client"][j] = "none"

\* C15: for an instance constructed not ready, once a startup deferred has
\* settled (resolved or rejected) the instance eventually is ready.
C15_SettledLeadsToReady ==
  \A g \in Gates :
    (enabledAtInit[g] /\ \E i \in Runs : chain[g][i] \in Settled)
      ~> (Ready(g) /\ view[g] = "children")

\* A browser instance constructed not ready whose started chains have all
\* run to their end, and which is ready.
C15_Witness ==
  /\ enabledAtInit["client"]
  /\ firstRender["client"] # "children"
  /\ effectRuns["client"] >= 1
  /\ \A i \in Runs :
       chain["client"][i] \in
         {"none", "done", "doneStartFailed", "doneImportFailed"}
  /\ Ready("client") /\ view["client"] = "children"

\* C16: once a constructed instance is ready it is ready in every later
\* state (the cell never goes back to false and the children stay
\* rendered), so the not-ready to ready transition happens at most once.
C16_ReadyIsStable ==
  [][\A g \in Gates :
       mounted[g] =>
         /\ Ready(g) => Ready(g)'
         /\ isMSWReady[g] => isMSWReady'[g]
         /\ (view[g] = "children") => (view'[g] = "children")]_vars

\* A ready browser instance on which setIsMSWReady(true) was called again
\* by a second startup.
C16_Witness ==
  /\ Ready("client") /\ view["client"] = "children"
  /\ enabledAtInit["client"]
  /\ Cardinality({i \in Runs :
       chain["client"][i] \in {"done", "doneStartFailed", "doneImportFailed"}})
       >= 2

\* C17: one instance invokes worker.start at most once, over any sequence
\* of renders and effect executions.
C17_StartAtMostOnce ==
  \A g \in Gates : startCalls[g] <= 1

\* C18: every call of worker.start passes onUnhandledRequest: 'bypass'.
C18_StartPassesBypass ==
  \A g \in Gates :
    /\ startOptions[g] \subseteq {"bypass"}
    /\ startCalls[g] > 0 => startOptions[g] = {"bypass"}

\* worker.start has been called by the browser instance.
C18_Witness ==
  /\ startCalls["client"] >= 1
  /\ startOptions["client"] = {"bypass"}

C20_UserIsMocked ==
  (lastExchange.made /\ lastExchange.workerActive
     /\ lastExchange.req = GetUser) =>
    /\ lastExchange.mocked
    /\ lastExchange.response.status = 200
    /\ lastExchange.response.body = MockUser

\* A mocked GET of /api/user that was not the first request.
C20_Witness ==
  /\ lastExchange.made /\ lastExchange.workerActive
  /\ lastExchange.req = GetUser
  /\ requestCount >= 2

\* C21: with the predicate true in the browser, once a worker.start has
\* resolved and no fetch of Page has gone past the worker, the browser
\* eventually shows the mocked user (ID 1, John Doe, john.doe@example.com)
\* instead of the provider's placeholder or 'Loading...', unless Page is
\* unmounted first.
C21_MockedUserShown ==
  (/\ isMSWEnabled(TRUE)
   /\ WorkerActive
   /\ \A i \in PageRuns : fetchReq[i] # "network")
    ~> (\/ /\ Displayed = "User Data"
           /\ user = [id |-> "1", name |-> "John Doe",
                      email |-> "john.doe@example.com"]
        \/ pageEffectRuns > 0 /\ ~isMounted[pageEffectRuns])

\* The browser went from the provider's placeholder to the mocked user.
C21_Witness ==
  /\ enabledAtInit["client"]
  /\ firstRender["client"] # "children"
  /\ Displayed = "User Data"
  /\ user = MockUser
  /\ isMounted[pageEffectRuns]

\* C22: with the predicate true in the browser and every fetch of Page
\* answered by the mock, error is null and the 'Error:' view is not shown.
C22_NoErrorWhenMocked ==
  (/\ isMSWEnabled(TRUE)
   /\ pageEffectRuns > 0
   /\ \A i \in 1 .. pageEffectRuns : fetchReq[i] = "mocked")
    => (error = null /\ Displayed # "Error:")

\* The mounted execution's fetch was answered by the mock and has settled.
C22_Witness ==
  /\ enabledAtInit["client"]
  /\ pageEffectRuns > 0
  /\ fetchReq[pageEffectRuns] = "mocked"
  /\ fetchState[pageEffectRuns] = "settled"
  /\ isMounted[pageEffectRuns]
  /\ error = null
  /\ ~loading

\* C23: a step of fetchUser() of an execution whose cleanup has run (its
\* isMounted is false) changes none of user, error and loading, whether the
\* fetch rejects, answers not ok, answers ok, or the body fails to parse.
C23_NoUpdateAfterCleanup ==
  [][\A i \in PageRuns :
       (/\ ~isMounted[i]
        /\ fetchState[i] \in {"pending", "parsing"}
        /\ fetchState'[i] # fetchState[i])
         => /\ UNCHANGED <<user, error, loading>>
            /\ i \notin appliedBy']_vars

\* The fetch of a cleaned-up execution settled with a parsed user and Page
\* still shows 'Loading...'.
C23_Witness ==
  \E i \in PageRuns :
    /\ ~isMounted[i]
    /\ i < pageEffectRuns
    /\ fetchState[i] = "settled"
    /\ fetchRes[i].status = 200
    /\ fetchRes[i].body \notin {null, HtmlBody}
    /\ loading
    /\ user = null

\* C24: under mount, cleanup, re-mount, once the fetch of the second
\* execution has settled with Page still mounted, loading is false,
\* 'Loading...' is not shown, and only the second execution has written to
\* user, error or loading, in whichever order the two fetches settled.
C24_SecondFetchDecides ==
  (/\ pageEffectRuns = StrictModeRuns
   /\ isMounted[StrictModeRuns]
   /\ fetchState[StrictModeRuns] = "settled")
    => /\ ~loading
       /\ PageRender # "Loading..."
       /\ appliedBy = {StrictModeRuns}

\* Both fetches have settled, with different results, the first one last
\* or first.
C24_Witness ==
  /\ pageEffectRuns = StrictModeRuns
  /\ isMounted[StrictModeRuns]
  /\ fetchState[1] = "settled"
  /\ fetchState[StrictModeRuns] = "settled"
  /\ fetchRes[1] # fetchRes[StrictModeRuns]
  /\ ~loading

\* C28 as stated: once the fetch of a still-mounted execution has settled,
\* loading is false and exactly one of user and error is non-null; user and
\* error are never both non-null.
C28_ExactlyOne ==
  /\ ~(user # null /\ error # null)
  /\ \A i \in PageRuns :
       (isMounted[i] /\ fetchState[i] = "settled") =>
         /\ ~loading
         /\ (user # null) <=> (error = null)

\* C28 amended: loading starts true and never returns to true; user and
\* error are never both non-null; once the fetch of a still-mounted
\* execution has settled, loading is false, and either the fetch rejected,
\* the response was not ok or its body was no JSON document, and then error
\* is non-null and user is null, or user is the parsed document, which is
\* null for the document `null`, and error is null.
C28_Cells ==
  /\ loading = TRUE
  /\ [][/\ loading' => loading
        /\ ~(user' # null /\ error' # null)
        /\ \A i \in PageRuns :
             (isMounted'[i] /\ fetchState'[i] = "settled") =>
               /\ ~loading'
               /\ IF \/ fetchRes'[i] = NetworkError
                     \/ fetchRes'[i].status \notin 200 .. 299
                     \/ fetchRes'[i].body = HtmlBody
                  THEN error' # null /\ user' = null
                  ELSE error' = null /\ user' = fetchRes'[i].body]_vars

\* An ok response carried the JSON document `null`: the fetch has settled,
\* loading is false, and user and error are both null.
C28_Witness ==
  \E i \in PageRuns :
    /\ isMounted[i]
    /\ fetchState[i] = "settled"
    /\ fetchRes[i] = [status |-> 200, body |-> null]
    /\ ~loading
    /\ user = null
    /\ error = null
    /\ PageRender = "No user data available"

\* C25: no step of the core, whether a call of the predicate or a step of
\* an instance (construction, effect, settlement of the import or of
\* worker.start, promise callback, render), changes any of
\* NEXT_PUBLIC_ENABLE_MSW_MOCK, APP_ENV and NODE_ENV.
C25_SnapshotUnchanged ==
  [][/\ env'.NEXT_PUBLIC_ENABLE_MSW_MOCK = env.NEXT_PUBLIC_ENABLE_MSW_MOCK
     /\ env'.APP_ENV = env.APP_ENV
     /\ env'.NODE_ENV = env.NODE_ENV]_vars

\* The predicate was called with the flag unset, around a startup that ran
\* to its end in the browser instance.
C25_Witness ==
  /\ call.made
  /\ prevCall.made
  /\ env.NEXT_PUBLIC_ENABLE_MSW_MOCK = undefined
  /\ mounted["server"]
  /\ effectRuns["client"] > 0
  /\ isMSWReady["client"]

\* C26: a step of one instance (its construction, an execution of its
\* effect, a settlement or callback of its startup) leaves the state cell
\* and the render of the other instance as they were.
C26_RootsIndependent ==
  [][\A g, h \in Gates :
       (/\ g # h
        /\ \/ mounted'[g] # mounted[g]
           \/ effectRuns'[g] # effectRuns[g]
           \/ chain'[g] # chain[g])
         => /\ isMSWReady'[h] = isMSWReady[h]
            /\ view'[h] = view[h]]_vars

\* Two browser roots, both started with the predicate true: one has become
\* ready, the other is still waiting for its worker.start.
C26_Witness ==
  /\ \A g \in Gates : hasWindow(g) /\ enabledAtInit[g]
  /\ \E g, h \in Gates :
       /\ isMSWReady[g] /\ view[g] = "children"
       /\ \E i \in Runs : chain[g][i] = "done"
       /\ ~isMSWReady[h] /\ view[h] # "children"
       /\ \E i \in Runs : chain[h][i] = "starting"

\* C27: an execution of the effect of an instance whose cell is false, in a
\* state where the predicate is false or there is no window, sets the cell,
\* renders the children, and neither imports the worker module nor calls
\* worker.start.
C27_SkipGoesReady ==
  [][\A g \in Gates :
       (/\ effectRuns'[g] # effectRuns[g]
        /\ ~isMSWReady[g]
        /\ (~isMSWEnabled(hasWindow(g)) \/ ~hasWindow(g)))
         => /\ isMSWReady'[g]
            /\ view'[g] = "children"
            /\ importCalls'[g] = importCalls[g]
            /\ startCalls'[g] = startCalls[g]
            /\ chain'[g] = chain[g]]_vars

\* An instance constructed without a window while the predicate was true
\* there: its effect ran and made it ready without an import.
C27_Witness ==
  \E g \in Gates :
    /\ ~hasWindow(g)
    /\ enabledAtInit[g]
    /\ firstRender[g] # "children"
    /\ effectRuns[g] > 0
    /\ isMSWReady[g]
    /\ importCalls[g] = 0

\* C29: two instances of different revisions, in the same context and with
\* the same history (the same effect executions, each startup at the same
\* point with the same outcomes), both render the children or both do not,
\* and have imported the worker module and called worker.start equally
\* often.
C29_VariantsEquivalent ==
  \A g, h \in Gates :
    (/\ variant[g] # variant[h]
     /\ hasWindow(g) = hasWindow(h)
     /\ mounted[g] /\ mounted[h]
     /\ effectRuns[g] = effectRuns[h]
     /\ chain[g] = chain[h])
      => /\ (view[g] = "children") <=> (view[h] = "children")
         /\ startCalls[g] = startCalls[h]
         /\ importCalls[g] = importCalls[h]

\* One root of each revision in the browser, predicate true: both went
\* through one startup with a rejected worker.start and render the children.
C29_Witness ==
  /\ variant["server"] = "v002" /\ variant["client"] = "v003"
  /\ \A g \in Gates : hasWindow(g) /\ enabledAtInit[g]
  /\ chain["server"] = chain["client"]
  /\ chain["server"][1] = "doneStartFailed"
  /\ \A g \in Gates : view[g] = "children" /\ startCalls[g] = 1
====
